---------------------------- MODULE Spec2Model ----------------------------
(***************************************************************************)
(* Progressive path tracer (slonkazoid/u).                                 *)
(*                                                                         *)
(* Two state machines are modelled:                                        *)
(*   Spec       the host frame loop of src/src/main.rs (event handlers,    *)
(*              the command encoder, the GPU queue that executes the       *)
(*              trace pass, the texture copy, the tonemap pass and the UI  *)
(*              pass) with one invocation of main_f per pixel;             *)
(*   TraceSpec  one invocation of the fragment entry point main_f of       *)
(*              src/shaders/src/lib.rs, stepped test by test through the   *)
(*              closest-hit traversal of every bounce.                     *)
(*                                                                         *)
(* Radiance is one colour channel (the three channels are computed         *)
(* independently by the same component-wise operations) over the naturals. *)
(* Distances along a ray are integers in units of the tMin epsilon 0.001.  *)
(*                                                                         *)
(* Two further specifications apply the shader's functions on their own:   *)
(*   RngSpec    the seeding of Rng in main_f and the draws of two Rng      *)
(*              values, with u32 arithmetic kept at its width;             *)
(*   HitSpec    Sphere::hit, Tri::hit (both shader variants), the          *)
(*              Dielectric arm of the material dispatch and the            *)
(*              attenuation a path starts with.                            *)
(*                                                                         *)
(* One more follows the part of the program the frame loop leaves out:     *)
(*   UiSpec     handle_ui_event of src/src/main.rs on the InputState of    *)
(*              src/src/ui.rs.                                             *)
(***************************************************************************)
EXTENDS Integers, Sequences, FiniteSets

(***************************************************************************)
(* Bounds of the model.                                                    *)
(***************************************************************************)
\* src/src/main.rs:18 sets SAMPLES to 4096; the model scales the budget down.
SAMPLES == 3
\* src/shaders/src/lib.rs:176 sets MAX_BOUNCES to 32; scaled down likewise.
MAX_BOUNCES == 3
\* per-frame radiance contributions of one pixel range over 0..MaxRadiance
MaxRadiance == 1
\* frame seeds (consts.rand, a u32 in the program) range over 0..MaxRand
MaxRand == 1

\* viewport sizes <<width, height>> the window can take
Sizes == {<<1, 1>>, <<2, 1>>, <<1, 2>>}
Radiance == 0..MaxRadiance
RandVals == 0..MaxRand

VARIABLES
  \* ---- host frame loop (src/src/main.rs) ----
  consts,      \* the host's Consts value: size, rand, samples
  staged,      \* the bytes queue.write_buffer staged for the uniform buffer
  uniform,     \* the uniform buffer as the GPU sees it
  textures,    \* Textures: prev and current, each pixel -> accumulated sum
  screen,      \* what quad_f last drew: per pixel <<sum read, divisor>>
  ui_text,     \* the sample count the UI text shows
  queue,       \* the commands submitted to the GPU queue, not yet executed
  pending,     \* pixels of the running trace pass not yet shaded
  inPass,      \* TRUE while the trace pass is running
  alive,       \* FALSE after CloseRequested
  hist,        \* history of the accumulation since the last reset
  \* ---- one invocation of main_f (src/shaders/src/lib.rs) ----
  pc,          \* position: start, spheres, meshes, tris, shade, done
  bounce,      \* iterations of the bounce loop begun so far
  idx,         \* index of the sphere or triangle tested next
  ray,         \* the current ray: which Ray::new built it
  attenuation, \* the attenuation carried along the path
  out_color,   \* the invocation's output
  closest,     \* the running closest Hit of the current bounce
  path,        \* history of the invocation
  \* ---- the shader's functions applied on their own ----
  rngs,        \* two Rng values, each with its seed and the draws made
  call,        \* the last function applied: its name, arguments and result
  \* ---- the UI context's input (src/src/ui.rs, handle_ui_event) ----
  input        \* InputState, and the last event handle_ui_event was given

hostVars == <<consts, staged, uniform, textures, screen, ui_text, queue,
              pending, inPass, alive, hist>>

traceVars == <<pc, bounce, idx, ray, attenuation, out_color, closest, path>>

kernelVars == <<rngs, call>>

uiVars == <<input>>

vars == <<hostVars, traceVars, kernelVars, uiVars>>

Pixels(size) == (0..(size[1] - 1)) \X (0..(size[2] - 1))

Zero(size) == [p \in Pixels(size) |-> 0]

\* Textures::new: both textures are created with the viewport's size; wgpu
\* hands out zero-initialised textures.
TexturesNew(size) == [prev |-> Zero(size), current |-> Zero(size), size |-> size]

\* quad_v: out_uv of the full-screen triangle, interpolated at the centre of
\* pixel p.  Coordinates are in half-texel units (u in 1/(2w), v in 1/(2h));
\* clip-space y points up while framebuffer rows count down, so v is mirrored.
quad_v(p, size) == <<2 * p[1] + 1, 2 * size[2] - (2 * p[2] + 1)>>

\* faulty variant: the sample coordinate without the 1.0 - uv.y mirror
FlipUv_None(uv, size) == uv

\* Vec2::new(uv.x, 1.0 - uv.y): the coordinate main_f and quad_f sample at.
FlipUv(uv, size) == <<uv[1], 2 * size[2] - uv[2]>>

Clamp(x, lo, hi) == IF x < lo THEN lo ELSE IF x > hi THEN hi ELSE x

\* The default sampler: nearest texel, clamp to edge.
SampleTexel(uv, size) ==
  <<Clamp(uv[1] \div 2, 0, size[1] - 1), Clamp(uv[2] \div 2, 0, size[2] - 1)>>

\* the texel of the bound texture that the invocation for pixel p reads
ReadTexel(p, size) == SampleTexel(FlipUv(quad_v(p, size), size), size)

\* faulty variant: the output forgets the previous sum
main_f_out_NoPrev(texel, radiance) == radiance

\* main_f's output: the previous sum of the pixel plus this path's radiance
main_f_out(texel, radiance) == texel + radiance

\* quad_f: the sum read from the texture, divided by consts.samples
quad_f(sum, u) == <<sum, u.samples>>

\* faulty variant: the copy is recorded after the tonemap pass
EncodeCommands_CopyLast(trace) ==
  <<"write_buffer">>
    \o (IF trace THEN <<"rt_pass">> ELSE <<>>)
    \o <<"quad_pass">>
    \o (IF trace THEN <<"copy_texture_to_texture">> ELSE <<>>)
    \o <<"ui_pass">>

\* The command buffer RedrawRequested records, in recording order.
EncodeCommands(trace) ==
  <<"write_buffer">>
    \o (IF trace THEN <<"rt_pass", "copy_texture_to_texture">> ELSE <<>>)
    \o <<"quad_pass", "ui_pass">>

\* instance.poll_all(true) at the end of RedrawRequested blocks the event
\* loop until the GPU has executed everything submitted.
EventLoopIdle == alive /\ queue = <<>>

NoTexel == <<-1, -1>>

HistReset(size) ==
  [total |-> Zero(size),  \* per pixel: sum of the contributions since reset
   traced |-> 0,          \* trace passes recorded since the reset
   prevFrames |-> 0,      \* frames summed in textures.prev
   curFrames |-> 0,       \* frames summed in textures.current
   read |-> [p \in Pixels(size) |-> NoTexel], \* texel each invocation read
   frame |-> Zero(size),  \* per pixel: the contribution of the last frame
   order |-> <<>>,        \* pixels of the last trace pass, in shading order
   shownFrames |-> 0,     \* frames in the buffer quad_f last read
   drawn |-> FALSE,       \* quad_f has drawn since the reset
   tracedNow |-> FALSE,   \* the last redraw recorded a trace pass
   wasExhausted |-> FALSE,\* the budget was exhausted when the reset came
   events |-> <<"init", "init">>] \* the last two window events

\* device.create_buffer: the uniform buffer is zeroed until the first
\* queue.write_buffer is executed
UniformZeroed == [size |-> <<0, 0>>, rand |-> 0, samples |-> 0]

HostInit ==
  /\ \E size \in Sizes, r \in RandVals :
       /\ consts = [size |-> size, rand |-> r, samples |-> 1]
       /\ textures = TexturesNew(size)
       /\ screen = [p \in Pixels(size) |-> <<0, 1>>]
       /\ hist = HistReset(size)
  /\ staged = UniformZeroed
  /\ uniform = UniformZeroed
  /\ ui_text = 0
  /\ queue = <<>>
  /\ pending = {}
  /\ inPass = FALSE
  /\ alive = TRUE

\* faulty variant: Resized forgets consts.samples = 1
Resized_KeepsSamples(size) ==
  /\ EventLoopIdle
  /\ textures' = TexturesNew(size)
  /\ consts' = [consts EXCEPT !.size = size]
  /\ screen' = [p \in Pixels(size) |-> <<0, 1>>]
  /\ hist' = [HistReset(size) EXCEPT
                !.wasExhausted = consts.samples > SAMPLES,
                !.events = <<hist.events[2], "resized">>]
  /\ UNCHANGED <<staged, uniform, ui_text, queue, pending, inPass, alive>>
  /\ UNCHANGED <<traceVars, kernelVars, uiVars>>

\* faulty variant: Resized restarts the sample counter at 0
Resized_FromZero(size) ==
  /\ EventLoopIdle
  /\ textures' = TexturesNew(size)
  /\ consts' = [consts EXCEPT !.size = size, !.samples = 0]
  /\ screen' = [p \in Pixels(size) |-> <<0, 1>>]
  /\ hist' = [HistReset(size) EXCEPT
                !.wasExhausted = consts.samples > SAMPLES,
                !.events = <<hist.events[2], "resized">>]
  /\ UNCHANGED <<staged, uniform, ui_text, queue, pending, inPass, alive>>
  /\ UNCHANGED <<traceVars, kernelVars, uiVars>>

\* WindowEvent::Resized
Resized(size) ==
  /\ EventLoopIdle
  /\ textures' = TexturesNew(size)
  /\ consts' = [consts EXCEPT !.size = size, !.samples = 1]
  /\ screen' = [p \in Pixels(size) |-> <<0, 1>>]
  /\ hist' = [HistReset(size) EXCEPT
                !.wasExhausted = consts.samples > SAMPLES,
                !.events = <<hist.events[2], "resized">>]
  /\ UNCHANGED <<staged, uniform, ui_text, queue, pending, inPass, alive>>
  /\ UNCHANGED <<traceVars, kernelVars, uiVars>>

\* faulty variant: the budget test admits one trace pass too many
RedrawRequested_OverBudget(r) ==
  /\ EventLoopIdle
  /\ LET trace == consts.samples <= SAMPLES + 1
         next == IF trace
                   THEN [consts EXCEPT !.rand = r, !.samples = @ + 1]
                   ELSE consts
     IN /\ staged' = consts
        /\ queue' = queue \o EncodeCommands(trace)
        /\ consts' = next
        /\ ui_text' = next.samples - 1
        /\ hist' = [hist EXCEPT
                      !.traced = IF trace THEN @ + 1 ELSE @,
                      !.tracedNow = trace,
                      !.events = <<hist.events[2], "redraw">>]
  /\ UNCHANGED <<uniform, textures, screen, pending, inPass, alive>>
  /\ UNCHANGED <<traceVars, kernelVars, uiVars>>

\* WindowEvent::RedrawRequested, up to queue.submit
RedrawRequested(r) ==
  /\ EventLoopIdle
  /\ LET trace == consts.samples <= SAMPLES
         next == IF trace
                   THEN [consts EXCEPT !.rand = r, !.samples = @ + 1]
                   ELSE consts
     IN /\ staged' = consts
        /\ queue' = queue \o EncodeCommands(trace)
        /\ consts' = next
        /\ ui_text' = next.samples - 1
        /\ hist' = [hist EXCEPT
                      !.traced = IF trace THEN @ + 1 ELSE @,
                      !.tracedNow = trace,
                      !.events = <<hist.events[2], "redraw">>]
  /\ UNCHANGED <<uniform, textures, screen, pending, inPass, alive>>
  /\ UNCHANGED <<traceVars, kernelVars, uiVars>>

\* WindowEvent::CloseRequested
CloseRequested ==
  /\ EventLoopIdle
  /\ alive' = FALSE
  /\ UNCHANGED <<consts, staged, uniform, textures, screen, ui_text, queue,
                 pending, inPass, hist>>
  /\ UNCHANGED <<traceVars, kernelVars, uiVars>>

\* the staged uniform data reaches the buffer before the command buffer runs
GpuWriteBuffer ==
  /\ queue # <<>> /\ Head(queue) = "write_buffer"
  /\ uniform' = staged
  /\ queue' = Tail(queue)
  /\ UNCHANGED <<consts, staged, textures, screen, ui_text, pending, inPass,
                 alive, hist>>
  /\ UNCHANGED <<traceVars, kernelVars, uiVars>>

\* the trace pass begins: LoadOp::Clear(BLACK) on its colour attachment
GpuRtBegin ==
  /\ queue # <<>> /\ Head(queue) = "rt_pass" /\ ~inPass
  /\ inPass' = TRUE
  /\ pending' = Pixels(textures.size)
  /\ textures' = [textures EXCEPT !.current = Zero(textures.size)]
  /\ hist' = [hist EXCEPT !.order = <<>>,
                          !.read = [p \in Pixels(textures.size) |-> NoTexel]]
  /\ UNCHANGED <<consts, staged, uniform, screen, ui_text, queue, alive>>
  /\ UNCHANGED <<traceVars, kernelVars, uiVars>>

\* one invocation of main_f, for pixel p, tracing a path of radiance c
GpuRtFragment(p, c) ==
  /\ inPass /\ p \in pending
  /\ LET t == ReadTexel(p, textures.size)
     IN /\ textures' = [textures EXCEPT
                          !.current[p] = main_f_out(textures.prev[t], c)]
        /\ hist' = [hist EXCEPT !.total[p] = @ + c, !.read[p] = t,
                                !.frame[p] = c, !.order = Append(@, p)]
  /\ pending' = pending \ {p}
  /\ UNCHANGED <<consts, staged, uniform, screen, ui_text, queue, inPass, alive>>
  /\ UNCHANGED <<traceVars, kernelVars, uiVars>>

\* the trace pass ends when every pixel has been shaded
GpuRtEnd ==
  /\ inPass /\ pending = {}
  /\ inPass' = FALSE
  /\ queue' = Tail(queue)
  /\ hist' = [hist EXCEPT !.curFrames = hist.prevFrames + 1]
  /\ UNCHANGED <<consts, staged, uniform, textures, screen, ui_text, pending,
                 alive>>
  /\ UNCHANGED <<traceVars, kernelVars, uiVars>>

\* encoder.copy_texture_to_texture(current -> prev)
GpuCopy ==
  /\ queue # <<>> /\ Head(queue) = "copy_texture_to_texture"
  /\ textures' = [textures EXCEPT !.prev = textures.current]
  /\ hist' = [hist EXCEPT !.prevFrames = hist.curFrames]
  /\ queue' = Tail(queue)
  /\ UNCHANGED <<consts, staged, uniform, screen, ui_text, pending, inPass,
                 alive>>
  /\ UNCHANGED <<traceVars, kernelVars, uiVars>>

\* the tonemap pass: quad_f for every pixel, reading textures.prev
GpuQuadPass ==
  /\ queue # <<>> /\ Head(queue) = "quad_pass"
  /\ screen' = [p \in Pixels(textures.size) |->
                  quad_f(textures.prev[ReadTexel(p, textures.size)], uniform)]
  /\ hist' = [hist EXCEPT !.shownFrames = hist.prevFrames, !.drawn = TRUE]
  /\ queue' = Tail(queue)
  /\ UNCHANGED <<consts, staged, uniform, textures, ui_text, pending, inPass,
                 alive>>
  /\ UNCHANGED <<traceVars, kernelVars, uiVars>>

\* the UI pass draws the text over the tonemapped image
GpuUiPass ==
  /\ queue # <<>> /\ Head(queue) = "ui_pass"
  /\ queue' = Tail(queue)
  /\ UNCHANGED <<consts, staged, uniform, textures, screen, ui_text, pending,
                 inPass, alive, hist>>
  /\ UNCHANGED <<traceVars, kernelVars, uiVars>>

HostNext ==
  \/ \E size \in Sizes : Resized(size)
  \/ \E r \in RandVals : RedrawRequested(r)
  \/ CloseRequested
  \/ GpuWriteBuffer
  \/ GpuRtBegin
  \/ \E p \in pending, c \in Radiance : GpuRtFragment(p, c)
  \/ GpuRtEnd
  \/ GpuCopy
  \/ GpuQuadPass
  \/ GpuUiPass

(***************************************************************************)
(* One invocation of main_f.  The geometry of each intersection test (the  *)
(* roots of the sphere quadratic, the Moeller-Trumbore result, the slab    *)
(* test's verdict) is an input of the step that runs the test: the ray and *)
(* the scene are fixed during a bounce and every object is tested once.    *)
(***************************************************************************)
\* distances range over 0..MaxDist; 0 stands for every distance below tMin
MaxDist == 3
\* the tMin epsilon 0.001 passed to every hit test, in distance units
TMin == 1
\* f32::MAX, above every distance of the scene
FMAX == MaxDist + 1
\* triangles of the mesh (967 in the program's vertex buffer)
NTris == 2

Dist == 0..MaxDist

\* the materials buffer: kind and albedo by material index 0..7.  The albedo
\* is the red channel, with 2 standing for 0.8.
MaterialKind ==
  <<"Lambertian", "Lambertian", "Lambertian", "Lambertian", "Lambertian",
    "Dielectric", "Metal", "Emissive">>
Albedo == <<2, 1, 0, 0, 1, 1, 2, 5>>
Kind(mat) == MaterialKind[mat + 1]
Color(mat) == Albedo[mat + 1]

\* material index of each sphere of the scene: the Dielectric and the Metal
\* sphere of the source and the Emissive sphere it keeps commented out
SphereMat == <<5, 6, 7>>
NSpheres == Len(SphereMat)
\* meshes[0].mat
MeshMat == 0

\* what the quadratic of a sphere can give: no real root, or t1 <= t2
SphereRoots == {<<>>} \cup {r \in Dist \X Dist : r[1] <= r[2]}
\* what Moeller-Trumbore can give: rejected by the barycentric tests (-1),
\* or the distance along the ray
TriDistances == {-1} \cup Dist

\* Hit::default()
HitDefault == [distance |-> 0, mat |-> 0, obj |-> "none"]

\* Sphere::hit
SphereHit(roots, mat, obj, min, max) ==
  IF roots = <<>> THEN HitDefault
  ELSE IF ~(roots[1] < min \/ roots[1] > max)
    THEN [distance |-> roots[1], mat |-> mat, obj |-> obj]
  ELSE IF ~(roots[2] < min \/ roots[2] > max)
    THEN [distance |-> roots[2], mat |-> mat, obj |-> obj]
  ELSE HitDefault

\* Tri::hit
TriHit(t, mat, obj, min, max) ==
  IF t = -1 THEN HitDefault
  ELSE IF t > min /\ t < max
    THEN [distance |-> t, mat |-> mat, obj |-> obj]
  ELSE HitDefault

\* faulty variant: every hit test is given f32::MAX as its upper bound
UpperBound_Max(c) == FMAX

\* the upper bound handed to a hit test: the running closest distance
UpperBound(c) == c.distance

\* if hit.distance > 0.0 { closest = hit; }
Closer(hit, c) == IF hit.distance > 0 THEN hit ELSE c

\* faulty variant: the loop runs once more
LoopContinues_OffByOne(b) == b <= MAX_BOUNCES

\* for _ in 0..MAX_BOUNCES
LoopContinues(b) == b < MAX_BOUNCES

\* faulty variant: the albedo of the light is multiplied into the attenuation first
EmissiveRadiance_Post(color, att) == color * (att * color)

\* *out_color += (color * attenuation).extend(1.0)
EmissiveRadiance(color, att) == color * att

\* faulty variant: the environment sample is added without the attenuation
MissRadiance_NoAtt(sky, att) == sky

\* *out_color += sky.sample_by_lod(..) * attenuation.extend(1.0)
MissRadiance(sky, att) == sky * att

\* the initial attenuation: the tint of the sampled wavelength
StartAttenuations == 0..2

PathReset ==
  [texel |-> 0,     \* the previous sum the invocation read
   start |-> 0,     \* the attenuation at path start
   hits |-> <<>>,   \* per finished bounce: the material hit, -1 for a miss
   cands |-> {},    \* distances of the intersections met in this bounce
   was |-> FMAX,    \* the closest distance before the last test
   bound |-> FMAX,  \* the upper bound the last test was given
   tested |-> 0,    \* hit tests run in this bounce
   meshes |-> 0,    \* the mesh's AABB verdict: 0 none, 1 passed, 2 failed
   adds |-> 0,      \* additions to out_color
   rays |-> 0,      \* rays built by Ray::new
   steps |-> 0,     \* steps taken
   sky |-> 0,       \* the environment sample of a miss
   ending |-> "none"]

TraceIdle ==
  /\ pc = "idle" /\ bounce = 0 /\ idx = 0 /\ ray = "none"
  /\ attenuation = 0 /\ out_color = 0 /\ closest = HitDefault
  /\ path = PathReset

HostIdle ==
  /\ consts = [size |-> <<1, 1>>, rand |-> 0, samples |-> 1]
  /\ staged = UniformZeroed /\ uniform = UniformZeroed
  /\ textures = TexturesNew(<<1, 1>>)
  /\ screen = [p \in Pixels(<<1, 1>>) |-> <<0, 1>>]
  /\ ui_text = 0 /\ queue = <<>> /\ pending = {} /\ inPass = FALSE
  /\ alive = TRUE /\ hist = HistReset(<<1, 1>>)

\* the state the invocation starts in
TraceInit ==
  /\ pc = "start" /\ bounce = 0 /\ idx = 0 /\ ray = "none"
  /\ attenuation = 0 /\ out_color = 0 /\ closest = HitDefault
  /\ path = PathReset

\* the head of the bounce loop: the next iteration begins, or the loop ends
LoopHead(b, h) ==
  IF LoopContinues(b)
    THEN /\ pc' = "spheres"
         /\ bounce' = b + 1
         /\ idx' = 1
         /\ closest' = [HitDefault EXCEPT !.distance = FMAX]
         /\ path' = [h EXCEPT !.cands = {}, !.was = FMAX, !.bound = FMAX,
                              !.tested = 0, !.meshes = 0,
                              !.steps = @ + 1]
    ELSE /\ pc' = "done"
         /\ path' = [h EXCEPT !.ending = "exhausted", !.steps = @ + 1]
         /\ UNCHANGED <<bounce, idx, closest>>

\* faulty variant: the output starts from zero instead of the previous sum
Start_NoPrev(texel, a0) ==
  /\ pc = "start"
  /\ out_color' = 0
  /\ attenuation' = a0
  /\ ray' = "camera"
  /\ LoopHead(0, [path EXCEPT !.texel = texel, !.start = a0, !.rays = 1])
  /\ UNCHANGED <<hostVars, kernelVars, uiVars>>

\* main_f up to the bounce loop: the previous sum is read into out_color, the
\* wavelength gives the attenuation, the camera builds the first ray
Start(texel, a0) ==
  /\ pc = "start"
  /\ out_color' = texel
  /\ attenuation' = a0
  /\ ray' = "camera"
  /\ LoopHead(0, [path EXCEPT !.texel = texel, !.start = a0, !.rays = 1])
  /\ UNCHANGED <<hostVars, kernelVars, uiVars>>

\* one iteration of the loop over the spheres
SphereTest(roots) ==
  /\ pc = "spheres"
  /\ LET hit == SphereHit(roots, SphereMat[idx], <<"sphere", idx>>, TMin,
                          UpperBound(closest))
     IN closest' = Closer(hit, closest)
  /\ path' = [path EXCEPT
                !.cands = @ \cup {roots[i] : i \in {j \in DOMAIN roots :
                                                      roots[j] >= TMin}},
                !.was = closest.distance,
                !.bound = UpperBound(closest),
                !.tested = @ + 1,
                !.steps = @ + 1]
  /\ IF idx < NSpheres
       THEN idx' = idx + 1 /\ pc' = "spheres"
       ELSE idx' = 0 /\ pc' = "meshes"
  /\ UNCHANGED <<bounce, ray, attenuation, out_color>>
  /\ UNCHANGED <<hostVars, kernelVars, uiVars>>

\* faulty variant: the triangles are tested whatever the AABB test says
MeshTest_NoGate(aabb) ==
  /\ pc = "meshes"
  /\ IF NTris > 0
       THEN idx' = 1 /\ pc' = "tris"
       ELSE idx' = 0 /\ pc' = "shade"
  /\ path' = [path EXCEPT !.meshes = IF aabb THEN 1 ELSE 2, !.steps = @ + 1]
  /\ UNCHANGED <<bounce, ray, attenuation, out_color, closest>>
  /\ UNCHANGED <<hostVars, kernelVars, uiVars>>

\* if meshes[i].aabb.hit(&ray): the triangles are tested only if it passes
MeshTest(aabb) ==
  /\ pc = "meshes"
  /\ IF aabb /\ NTris > 0
       THEN idx' = 1 /\ pc' = "tris"
       ELSE idx' = 0 /\ pc' = "shade"
  /\ path' = [path EXCEPT !.meshes = IF aabb THEN 1 ELSE 2, !.steps = @ + 1]
  /\ UNCHANGED <<bounce, ray, attenuation, out_color, closest>>
  /\ UNCHANGED <<hostVars, kernelVars, uiVars>>

\* one iteration of the loop over the triangles of the mesh
TriTest(t) ==
  /\ pc = "tris"
  /\ LET hit == TriHit(t, MeshMat, <<"tri", idx>>, TMin, UpperBound(closest))
     IN closest' = Closer(hit, closest)
  /\ path' = [path EXCEPT
                !.cands = @ \cup (IF t > TMin THEN {t} ELSE {}),
                !.was = closest.distance,
                !.bound = UpperBound(closest),
                !.tested = @ + 1,
                !.steps = @ + 1]
  /\ IF idx < NTris
       THEN idx' = idx + 1 /\ pc' = "tris"
       ELSE idx' = 0 /\ pc' = "shade"
  /\ UNCHANGED <<bounce, ray, attenuation, out_color>>
  /\ UNCHANGED <<hostVars, kernelVars, uiVars>>

\* a hit on a Lambertian, Metal or Dielectric surface: a new ray is built,
\* the attenuation is multiplied by the albedo, the loop goes on
ShadeScatter(reflects) ==
  /\ pc = "shade"
  /\ closest.distance # FMAX
  /\ Kind(closest.mat) # "Emissive"
  /\ ray' = CASE Kind(closest.mat) = "Lambertian" -> "lambertian"
              [] Kind(closest.mat) = "Metal" -> "reflect"
              [] Kind(closest.mat) = "Dielectric" ->
                   IF reflects THEN "reflect" ELSE "refract"
  /\ attenuation' = attenuation * Color(closest.mat)
  /\ UNCHANGED out_color
  /\ LoopHead(bounce, [path EXCEPT !.hits = Append(@, closest.mat),
                                   !.rays = @ + 1])
  /\ UNCHANGED <<hostVars, kernelVars, uiVars>>

\* faulty variant: the Emissive arm falls through to attenuation *= color
ShadeEmissive_Attenuates ==
  /\ pc = "shade"
  /\ closest.distance # FMAX
  /\ Kind(closest.mat) = "Emissive"
  /\ out_color' = out_color + EmissiveRadiance(Color(closest.mat), attenuation)
  /\ attenuation' = attenuation * Color(closest.mat)
  /\ pc' = "done"
  /\ path' = [path EXCEPT !.hits = Append(@, closest.mat),
                          !.adds = @ + 1,
                          !.ending = "emissive",
                          !.steps = @ + 1]
  /\ UNCHANGED <<bounce, idx, ray, closest>>
  /\ UNCHANGED <<hostVars, kernelVars, uiVars>>

\* a hit on an Emissive surface: the emission is added and the loop is left
ShadeEmissive ==
  /\ pc = "shade"
  /\ closest.distance # FMAX
  /\ Kind(closest.mat) = "Emissive"
  /\ out_color' = out_color + EmissiveRadiance(Color(closest.mat), attenuation)
  /\ pc' = "done"
  /\ path' = [path EXCEPT !.hits = Append(@, closest.mat),
                          !.adds = @ + 1,
                          !.ending = "emissive",
                          !.steps = @ + 1]
  /\ UNCHANGED <<bounce, idx, ray, attenuation, closest>>
  /\ UNCHANGED <<hostVars, kernelVars, uiVars>>

\* no hit: the environment is sampled and the loop is left
ShadeMiss(sky) ==
  /\ pc = "shade"
  /\ closest.distance = FMAX
  /\ out_color' = out_color + MissRadiance(sky, attenuation)
  /\ pc' = "done"
  /\ path' = [path EXCEPT !.hits = Append(@, -1),
                          !.sky = sky,
                          !.adds = @ + 1,
                          !.ending = "miss",
                          !.steps = @ + 1]
  /\ UNCHANGED <<bounce, idx, ray, attenuation, closest>>
  /\ UNCHANGED <<hostVars, kernelVars, uiVars>>

TraceNext ==
  \/ \E texel \in Radiance, a0 \in StartAttenuations : Start(texel, a0)
  \/ \E roots \in SphereRoots : SphereTest(roots)
  \/ \E aabb \in BOOLEAN : MeshTest(aabb)
  \/ \E t \in TriDistances : TriTest(t)
  \/ \E reflects \in BOOLEAN : ShadeScatter(reflects)
  \/ ShadeEmissive
  \/ \E sky \in Radiance : ShadeMiss(sky)

(***************************************************************************)
(* u32 arithmetic.  A u32 is the pair <<high half, low half>> of its two   *)
(* 16-bit halves, so that every operation keeps its 32-bit width.          *)
(***************************************************************************)
W16 == 65536

U32Of(n) == <<n \div W16, n % W16>>

RECURSIVE Xor16(_, _)
Xor16(a, b) ==
  IF a = 0 THEN b
  ELSE IF b = 0 THEN a
  ELSE (((a % 2) + (b % 2)) % 2) + 2 * Xor16(a \div 2, b \div 2)

RECURSIVE Or16(_, _)
Or16(a, b) ==
  IF a = 0 THEN b
  ELSE IF b = 0 THEN a
  ELSE (IF (a % 2) + (b % 2) > 0 THEN 1 ELSE 0) + 2 * Or16(a \div 2, b \div 2)

\* x ^ y
U32Xor(x, y) == <<Xor16(x[1], y[1]), Xor16(x[2], y[2])>>

\* x | y
U32Or(x, y) == <<Or16(x[1], y[1]), Or16(x[2], y[2])>>

\* x + y, wrapping
U32Add(x, y) ==
  LET lo == x[2] + y[2]
  IN <<(x[1] + y[1] + (lo \div W16)) % W16, lo % W16>>

\* x << k, for 0 <= k < 16
U32Shl(x, k) ==
  LET keep == 2 ^ (16 - k)
  IN <<((x[1] % keep) * (2 ^ k)) + (x[2] \div keep), (x[2] % keep) * (2 ^ k)>>

\* x >> k, for 0 <= k < 32
U32Shr(x, k) ==
  IF k >= 16
    THEN <<0, x[1] \div (2 ^ (k - 16))>>
    ELSE <<x[1] \div (2 ^ k),
           ((x[1] % (2 ^ k)) * (2 ^ (16 - k))) + (x[2] \div (2 ^ k))>>

\* the 32-bit product of two 16-bit halves, as <<high half, low half>>
Mul16(a, b) ==
  LET p == a * (b % 256)
      q == a * (b \div 256)
      t == p + ((q % 256) * 256)
  IN <<((t \div W16) + (q \div 256)) % W16, t % W16>>

\* x * y, wrapping
U32Mul(x, y) ==
  LET ll == Mul16(x[2], y[2])
      cross == Mul16(x[1], y[2])[2] + Mul16(x[2], y[1])[2]
  IN <<(ll[1] + cross) % W16, ll[2]>>

\* one round of hash's loop: byte i of the key is mixed into h
RECURSIVE HashLoop(_, _, _)
HashLoop(h, key, i) ==
  IF i = 4 THEN h
  ELSE LET h1 == U32Add(h, <<0, U32Shr(key, i * 8)[2] % 256>>)
           h2 == U32Add(h1, U32Shl(h1, 10))
           h3 == U32Xor(h2, U32Shr(h2, 6))
       IN HashLoop(h3, key, i + 1)

\* hash
hash(key) ==
  LET h0 == HashLoop(<<0, 0>>, key, 0)
      h1 == U32Add(h0, U32Shl(h0, 3))
      h2 == U32Xor(h1, U32Shr(h1, 11))
  IN U32Add(h2, U32Shl(h2, 15))

\* (coord.x + consts.size.y * coord.y) as u32, with coord the centre of pixel
\* p: frag_coord is <<p[1] + 0.5, p[2] + 0.5>> and the cast truncates
SeedKey(p, size) == U32Of(((2 * p[1] + 1) + size[2] * (2 * p[2] + 1)) \div 2)

\* Rng(consts.rand ^ hash(..)): the initial state of the pixel's generator
RngSeed(rand, p, size) == U32Xor(rand, hash(SeedKey(p, size)))

\* 0xadb4a92d
Multiplier == <<44468, 43309>>

\* 1.0 in the fixed-point unit of gen's results, 2^-22
GenOne == 4194304

\* transmute::<_, f32>(m) for a bit pattern with exponent field 128 (values
\* in [2, 4)), in units of 2^-22
F32FromBits(m) ==
  LET exponent == (m[1] \div 128) % 256
      mantissa == ((m[1] % 128) * W16) + m[2]
  IN (2 * GenOne + mantissa) * (2 ^ (exponent - 128))

\* faulty variant: the generator mixes in a counter shared by all generators
Rng_gen_Shared(s) ==
  LET shared == U32Of(Len(rngs.gen["a"].out) + Len(rngs.gen["b"].out))
      s1 == U32Add(U32Mul(U32Xor(s, shared), Multiplier), <<0, 1>>)
      m == U32Or(U32Shr(s1, 9), <<16384, 0>>)
  IN [s |-> s1, v |-> F32FromBits(m) - 3 * GenOne]

\* Rng::gen: the new state and the value returned, in units of 2^-22.
\* unchecked_mul compiles to SPIR-V's OpIMul, which wraps.
Rng_gen(s) ==
  LET s1 == U32Add(U32Mul(s, Multiplier), <<0, 1>>)
      m == U32Or(U32Shr(s1, 9), <<16384, 0>>)
  IN [s |-> s1, v |-> F32FromBits(m) - 3 * GenOne]

\* Rng::gen_pos: (gen() + 1.0) / 2.0, in units of 2^-23
Rng_gen_pos(s) ==
  LET g == Rng_gen(s)
  IN [s |-> g.s, v |-> g.v + GenOne]

\* Rng::gen_in_circle: the angle t in units of PI * 2^-22 and the squared
\* radius in units of 2^-23
Rng_gen_in_circle(s) ==
  LET t == Rng_gen(s)
      r == Rng_gen_pos(t.s)
  IN [s |-> r.s, v |-> [t |-> t.v, r2 |-> r.v]]

\* acos is defined on [-1, 1]
AcosDefined(x) == -GenOne <= x /\ x <= GenOne

\* Rng::gen_in_sphere: u, v, w are three results of gen, in units of 2^-22;
\* acosArg is 2.0 * v - 1.0; the point is NaN when acos is given an argument
\* outside its domain, otherwise its distance from the origin is |cbrt(w)|
Rng_gen_in_sphere(s) ==
  LET u == Rng_gen(s)
      v == Rng_gen(u.s)
      w == Rng_gen(v.s)
  IN [s |-> w.s,
      v |-> [u |-> u.v, v |-> v.v, w |-> w.v,
             acosArg |-> 2 * v.v - GenOne,
             nan |-> ~AcosDefined(2 * v.v - GenOne),
             draws |-> 3]]

(***************************************************************************)
(* Two Rng values, seeded as main_f seeds the generator of a pixel, and    *)
(* the draws made from each of them, in any interleaving.                  *)
(***************************************************************************)
\* calls made on one generator
MaxCalls == 2

Gens == {"a", "b"}

\* viewport sizes <<width, height>> of the frame the two pixels belong to
SeedSizes == {<<3, 2>>, <<2, 3>>}

\* values of consts.rand
SeedRands == {<<0, 0>>, <<57005, 48879>>}

\* let mut rng = Rng(..) in the invocation for pixel p
RngNew(rand, p, size) ==
  [coord |-> p,
   seed |-> RngSeed(rand, p, size),  \* the initial state
   s |-> RngSeed(rand, p, size),     \* the state, self.0
   out |-> <<>>]                     \* the calls made: function and result

RngsIdle ==
  [size |-> <<1, 1>>, rand |-> <<0, 0>>,
   gen |-> [g \in Gens |-> RngNew(<<0, 0>>, <<0, 0>>, <<1, 1>>)]]

CallIdle == [fn |-> "none"]

KernelIdle == rngs = RngsIdle /\ call = CallIdle

RngInit ==
  \E size \in SeedSizes, rand \in SeedRands :
    \E pa \in Pixels(size), pb \in Pixels(size) :
      rngs = [size |-> size, rand |-> rand,
              gen |-> [g \in Gens |->
                         RngNew(rand, IF g = "a" THEN pa ELSE pb, size)]]

\* a call on generator g: the state is replaced, the result is returned
Drawn(g, fn, r) ==
  /\ Len(rngs.gen[g].out) < MaxCalls
  /\ rngs' = [rngs EXCEPT !.gen[g].s = r.s,
                          !.gen[g].out = Append(@, [fn |-> fn, v |-> r.v])]
  /\ UNCHANGED <<hostVars, traceVars, call, uiVars>>

Gen(g) == Drawn(g, "gen", Rng_gen(rngs.gen[g].s))

GenPos(g) == Drawn(g, "gen_pos", Rng_gen_pos(rngs.gen[g].s))

GenInCircle(g) == Drawn(g, "gen_in_circle", Rng_gen_in_circle(rngs.gen[g].s))

GenInSphere(g) == Drawn(g, "gen_in_sphere", Rng_gen_in_sphere(rngs.gen[g].s))

RngNext ==
  \/ \E g \in Gens : Gen(g)
  \/ \E g \in Gens : GenPos(g)
  \/ \E g \in Gens : GenInCircle(g)
  \/ \E g \in Gens : GenInSphere(g)

(***************************************************************************)
(* Sphere::hit and Tri::hit from the coefficients the code computes.       *)
(* Ray::new normalises the direction, so a = 1.  b and c are integers with *)
(* a discriminant that is negative or a perfect square; distances are in   *)
(* units of tMin.  The values Tri::hit computes with inv_det are IEEE      *)
(* values: finite, an infinity or NaN.                                     *)
(***************************************************************************)
Abs(n) == IF n < 0 THEN -n ELSE n

\* sqrt of a perfect square
ISqrt(n) == CHOOSE r \in 0..n : r * r = n

IsSquare(n) == \E r \in 0..n : r * r = n

\* faulty variant: the sign of b is lost
SphereQuadratic_PlusB(b, c) ==
  LET disc == b * b - c
  IN IF disc < 0 THEN <<>>
     ELSE <<b - ISqrt(disc), b + ISqrt(disc)>>

\* faulty variant: a zero discriminant is rejected with the negative ones
SphereQuadratic_NoTangent(b, c) ==
  LET disc == b * b - c
  IN IF disc <= 0 THEN <<>>
     ELSE <<-b - ISqrt(disc), -b + ISqrt(disc)>>

\* Sphere::hit up to the roots: disc = b * b - a * c, no root if disc < 0.0,
\* else (-b - sqrtd) / a and (-b + sqrtd) / a
SphereQuadratic(b, c) ==
  LET disc == b * b - c
  IN IF disc < 0 THEN <<>>
     ELSE <<-b - ISqrt(disc), -b + ISqrt(disc)>>

\* Hit::default(), with the orientation fields: ndot is dot(normal, ray.dir)
HitEmpty == [distance |-> 0, front_face |-> FALSE, ndot |-> 0, mat |-> 0]

\* the Hit literal both intersectors of src/shaders build: front_face is
\* ray.dir.dot(normal) < 0.0 and the normal is negated when it is false.
\* dn is dot(ray.dir, normal) for the geometric normal, up to a positive factor
HitFacing(distance, dn, mat) ==
  [distance |-> distance,
   front_face |-> dn < 0,
   ndot |-> IF dn < 0 THEN dn ELSE -dn,
   mat |-> mat]

\* Sphere::hit: the distance is chosen by SphereHit; (pos - self.pos) . dir is
\* b + distance * a
Sphere_hit(b, c, mat, min, max) ==
  LET hit == SphereHit(SphereQuadratic(b, c), mat, "sphere", min, max)
  IN IF hit = HitDefault THEN HitEmpty
     ELSE HitFacing(hit.distance, b + hit.distance, mat)

\* IEEE values: a finite number, an infinity with its sign, or NaN
Fin(n) == [k |-> "fin", v |-> n]
Inf(sign) == [k |-> "inf", v |-> sign]
NaN == [k |-> "nan", v |-> 0]

Sign(n) == IF n < 0 THEN -1 ELSE IF n > 0 THEN 1 ELSE 0

\* 1.0 / det for a determinant -1, +1 or a zero of sign zsign
FInv(det, zsign) == IF det = 0 THEN Inf(zsign) ELSE Fin(det)

\* x * y
FMul(x, y) ==
  IF x.k = "nan" \/ y.k = "nan" THEN NaN
  ELSE IF x.k = "fin" /\ y.k = "fin" THEN Fin(x.v * y.v)
  ELSE IF x.v = 0 \/ y.v = 0 THEN NaN
  ELSE Inf(Sign(x.v) * Sign(y.v))

\* x + y
FAdd(x, y) ==
  IF x.k = "nan" \/ y.k = "nan" THEN NaN
  ELSE IF x.k = "fin" /\ y.k = "fin" THEN Fin(x.v + y.v)
  ELSE IF x.k = "inf" /\ y.k = "inf" /\ x.v # y.v THEN NaN
  ELSE IF x.k = "inf" THEN x ELSE y

\* x < y: false when either is NaN
FLt(x, y) ==
  /\ x.k # "nan" /\ y.k # "nan"
  /\ IF x.k = "fin" /\ y.k = "fin" THEN x.v < y.v
     ELSE IF x.k = "inf" /\ y.k = "inf" THEN x.v < y.v
     ELSE IF x.k = "inf" THEN x.v < 0
     ELSE y.v > 0

\* x > y
FGt(x, y) == FLt(y, x)

\* u and v are kept in halves: 1.0 is 2
One2 == 2

\* Tri::hit up to the distance: FALSE when the barycentric tests return
\* Hit::default(), else the distance.  nu is ao.dot(u_vec) and nv is
\* ray.dir.dot(v_vec), both in halves; nt is ac.dot(v_vec)
TriDistance(det, zsign, nu, nv, nt) ==
  LET inv_det == FInv(det, zsign)
      u == FMul(Fin(nu), inv_det)
      v == FMul(Fin(nv), inv_det)
  IN IF FLt(u, Fin(0)) \/ FGt(u, Fin(One2)) THEN [pass |-> FALSE, d |-> NaN]
     ELSE IF FLt(v, Fin(0)) \/ FGt(FAdd(u, v), Fin(One2))
       THEN [pass |-> FALSE, d |-> NaN]
     ELSE [pass |-> TRUE, d |-> FMul(Fin(nt), inv_det)]

\* if distance > min && distance < max
TriRange(d, min, max) == FGt(d, Fin(min)) /\ FLt(d, Fin(max))

\* Tri::hit of src/shaders.  det is ab . (dir x ac) = -dir . (ab x ac), so
\* dot(ray.dir, normal) has the sign of -det
Tri_hit(det, zsign, nu, nv, nt, mat, min, max) ==
  LET t == TriDistance(det, zsign, nu, nv, nt)
  IN IF t.pass /\ TriRange(t.d, min, max)
       THEN HitFacing(t.d.v, -det, mat)
       ELSE HitEmpty

\* Tri::hit of src/rt: normal: ab.cross(ac).normalize(), front_face: det > 0.0
Tri_hit_rt(det, zsign, nu, nv, nt, mat, min, max) ==
  LET t == TriDistance(det, zsign, nu, nv, nt)
  IN IF t.pass /\ TriRange(t.d, min, max)
       THEN [distance |-> t.d.v, front_face |-> det > 0, ndot |-> -det,
             mat |-> mat]
       ELSE HitEmpty

(***************************************************************************)
(* The Dielectric arm of main_f, over the rationals <<numerator,           *)
(* denominator>>.                                                          *)
(***************************************************************************)
RECURSIVE GCD(_, _)
GCD(a, b) == IF b = 0 THEN a ELSE GCD(b, a % b)

Rat(n, d) ==
  LET g == GCD(Abs(n), Abs(d))
      s == IF d < 0 THEN -1 ELSE 1
  IN <<(s * n) \div g, (s * d) \div g>>

RAdd(x, y) == Rat(x[1] * y[2] + y[1] * x[2], x[2] * y[2])
RSub(x, y) == Rat(x[1] * y[2] - y[1] * x[2], x[2] * y[2])
RMul(x, y) == Rat(x[1] * y[1], x[2] * y[2])
RDiv(x, y) == Rat(x[1] * y[2], x[2] * y[1])
RLt(x, y) == x[1] * y[2] < y[1] * x[2]
RMin(x, y) == IF RLt(y, x) THEN y ELSE x

RECURSIVE RPow(_, _)
RPow(x, n) == IF n = 0 THEN <<1, 1>> ELSE RMul(x, RPow(x, n - 1))

\* sqrt of a rational whose numerator and denominator are perfect squares
RSqrt(x) == <<ISqrt(x[1]), ISqrt(x[2])>>

ROne == <<1, 1>>

\* the index of refraction of the material: 1.5 in src/rt,
\* 1.5 + (wavelength - 150.0) * 0.0005 in src/shaders
Ior(variant, wavelength) ==
  IF variant = "rt" THEN <<3, 2>>
  ELSE RAdd(<<3, 2>>, RMul(<<wavelength - 150, 1>>, <<1, 2000>>))

\* let ir = if closest.front_face { 1.0 / ir } else { ir }
DielectricIr(ior, front_face) ==
  IF front_face THEN RDiv(ROne, ior) ELSE ior

\* schlick
schlick(cos, ir) ==
  LET r0 == RPow(RDiv(RSub(ROne, ir), RAdd(ROne, ir)), 2)
  IN RAdd(r0, RMul(RSub(ROne, r0), RPow(RSub(ROne, cos), 5)))

\* faulty variant: total internal reflection is not looked at
DielectricDir_SchlickOnly(cannot_refract, will_reflect) ==
  IF will_reflect THEN "reflect" ELSE "refract"

\* let dir = if cannot_refract || will_reflect { reflect(..) } else { refract(..) }
DielectricDir(cannot_refract, will_reflect) ==
  IF cannot_refract \/ will_reflect THEN "reflect" ELSE "refract"

\* the Dielectric arm: ndot is (-ray.dir).dot(closest.normal), draw is the
\* result of rng.gen_pos()
Dielectric(ior, front_face, ndot, draw) ==
  LET ir == DielectricIr(ior, front_face)
      cos_theta == RMin(ndot, ROne)
      sin_theta == RSqrt(RSub(ROne, RMul(cos_theta, cos_theta)))
      cannot_refract == RLt(ROne, RMul(ir, sin_theta))
      reflectance == schlick(cos_theta, ir)
      will_reflect == RLt(draw, reflectance)
  IN [ir |-> ir, cos_theta |-> cos_theta, sin_theta |-> sin_theta,
      cannot_refract |-> cannot_refract, reflectance |-> reflectance,
      will_reflect |-> will_reflect, draws |-> 1,
      dir |-> DielectricDir(cannot_refract, will_reflect)]

(***************************************************************************)
(* The functions applied on their own: one call at a time, each on         *)
(* arguments drawn from the sets below.                                    *)
(***************************************************************************)
\* b = oc . dir ranges over -MaxDist..MaxDist
QuadCoeffs ==
  {q \in (-MaxDist..MaxDist) \X (-(MaxDist * MaxDist)..(MaxDist * MaxDist + 1)) :
     LET disc == q[1] * q[1] - q[2]
     IN \/ disc < 0
        \/ IsSquare(disc) /\ -q[1] + ISqrt(disc) <= MaxDist}

\* the upper bound of a hit test: the running closest distance
UpperBounds == TMin..FMAX

\* a determinant with the sign of its zero
TriDets == {<<-1, 1>>, <<0, -1>>, <<0, 1>>, <<1, 1>>}

\* ao.dot(u_vec) and ray.dir.dot(v_vec), in halves
TriBary == -1..3

\* (-ray.dir).dot(closest.normal) for a normal facing the ray; rounding can
\* take the dot product of two unit vectors above 1
CosThetas == {<<0, 1>>, <<3, 5>>, <<4, 5>>, <<1, 1>>, <<6, 5>>}

\* results of gen_pos are DrawDen-ths
DrawDen == 8

\* the index of refraction of the glass the arm is applied to
Iors == {Ior("rt", 0), Ior("shaders", 550), Ior("shaders", 650)}

(***************************************************************************)
(* The start of a path in main_f: the wavelength drawn for it and the      *)
(* attenuation it starts with, a Vec3 <<r, g, b>> of rationals.            *)
(***************************************************************************)
\* the width of the wavelength range: rng.gen_pos() * 370.0 + 380.0
WaveWidth == 370

\* the results of rng.gen_pos() that give a whole number of nanometres
WaveDraws == {<<k, WaveWidth>> : k \in 0..(WaveWidth - 1)}

\* let wavelength = rng.gen_pos() * 370.0 + 380.0
Wavelength(draw) == RAdd(RMul(draw, <<WaveWidth, 1>>), <<380, 1>>)

\* the range pattern lo..=hi
InRange(x, lo, hi) == ~RLt(x, <<lo, 1>>) /\ ~RLt(<<hi, 1>>, x)

RNeg(x) == RSub(<<0, 1>>, x)

RZero == <<0, 1>>

\* the match on wavelength: the first arm whose range holds it
WavelengthTint(w) ==
  IF InRange(w, 380, 440) THEN
    LET at == RAdd(<<3, 10>>,
                   RDiv(RMul(<<7, 10>>, RSub(w, <<380, 1>>)), <<440 - 380, 1>>))
    IN <<RMul(RDiv(RNeg(RSub(w, <<440, 1>>)), <<440 - 380, 1>>), at), RZero, at>>
  ELSE IF InRange(w, 440, 490) THEN
    <<RZero, RDiv(RSub(w, <<440, 1>>), <<490 - 440, 1>>), ROne>>
  ELSE IF InRange(w, 510, 580) THEN
    <<RDiv(RSub(w, <<510, 1>>), <<580 - 510, 1>>), ROne, RZero>>
  ELSE IF InRange(w, 580, 645) THEN
    <<ROne, RDiv(RNeg(RSub(w, <<645, 1>>)), <<645 - 580, 1>>), RZero>>
  ELSE IF InRange(w, 645, 750) THEN
    LET at == RAdd(<<3, 10>>,
                   RDiv(RMul(<<7, 10>>, RSub(<<750, 1>>, w)), <<750 - 645, 1>>))
    IN <<at, RZero, RZero>>
  ELSE <<RZero, RZero, RZero>>

\* Vec3::new(2.74738275, 2.97417918, 3.33566826), to three decimals
WhiteScale == <<<<2747, 1000>>, <<2974, 1000>>, <<3336, 1000>>>>

\* attenuation *= Vec3::new(..): the product is taken channel by channel
StartAttenuation(w) ==
  [i \in 1..3 |-> RMul(WavelengthTint(w)[i], WhiteScale[i])]

\* if hit.distance > 0.0 { closest = hit; } on a closest whose distance is max
Registered(hit, max) == Closer(hit, [HitEmpty EXCEPT !.distance = max])

SphereHitCall(q, max) ==
  /\ call.fn = "none"
  /\ LET hit == Sphere_hit(q[1], q[2], SphereMat[1], TMin, max)
     IN call' = [fn |-> "Sphere::hit", b |-> q[1], c |-> q[2], max |-> max,
                 roots |-> SphereQuadratic(q[1], q[2]),
                 dn |-> q[1] + hit.distance,
                 hit |-> hit,
                 closest |-> Registered(hit, max)]
  /\ UNCHANGED <<hostVars, traceVars, rngs, uiVars>>

TriHitCall(variant, det, nu, nv, nt, max) ==
  /\ call.fn = "none"
  /\ LET hit == IF variant = "rt"
                  THEN Tri_hit_rt(det[1], det[2], nu, nv, nt, MeshMat, TMin, max)
                  ELSE Tri_hit(det[1], det[2], nu, nv, nt, MeshMat, TMin, max)
     IN call' = [fn |-> "Tri::hit", variant |-> variant, det |-> det[1],
                 nu |-> nu, nv |-> nv, nt |-> nt, max |-> max,
                 dn |-> -det[1],
                 hit |-> hit,
                 closest |-> Registered(hit, max)]
  /\ UNCHANGED <<hostVars, traceVars, rngs, uiVars>>

DielectricCall(ior, front_face, ndot, k) ==
  /\ call.fn = "none"
  /\ call' = [fn |-> "Dielectric", ior |-> ior, front_face |-> front_face,
              ndot |-> ndot, draw |-> <<k, DrawDen>>,
              res |-> Dielectric(ior, front_face, ndot, <<k, DrawDen>>)]
  /\ UNCHANGED <<hostVars, traceVars, rngs, uiVars>>

\* the path start of main_f, for one result of rng.gen_pos()
PathStartCall(draw) ==
  /\ call.fn = "none"
  /\ call' = [fn |-> "path start", draw |-> draw,
              wavelength |-> Wavelength(draw),
              attenuation |-> StartAttenuation(Wavelength(draw))]
  /\ UNCHANGED <<hostVars, traceVars, rngs, uiVars>>

\* the call has returned; the next one can be made
CallReturn ==
  /\ call.fn # "none"
  /\ call' = CallIdle
  /\ UNCHANGED <<hostVars, traceVars, rngs, uiVars>>

HitNext ==
  \/ \E q \in QuadCoeffs, max \in UpperBounds : SphereHitCall(q, max)
  \/ \E variant \in {"shaders", "rt"}, det \in TriDets, nu \in TriBary,
        nv \in TriBary, nt \in -MaxDist..MaxDist, max \in UpperBounds :
       TriHitCall(variant, det, nu, nv, nt, max)
  \/ \E ior \in Iors, front_face \in BOOLEAN, ndot \in CosThetas,
        k \in 0..(DrawDen - 1) :
       DielectricCall(ior, front_face, ndot, k)
  \/ \E draw \in WaveDraws : PathStartCall(draw)
  \/ CallReturn

(***************************************************************************)
(* handle_ui_event, which the event loop calls with every event before it  *)
(* dispatches on it, and the InputState of the UI context it writes.       *)
(* mouse_buttons is the sequence of the array's three entries: entry i of  *)
(* the array is element i + 1 of the sequence.                             *)
(***************************************************************************)
\* cursor positions <<x, y>> a CursorMoved event can report
CursorPositions == (0..2) \X (0..1)

\* winit's MouseButton: Left, Right, Middle, Back, Forward, Other(u16)
MouseButtons == {"Left", "Right", "Middle", "Back", "Forward", "Other"}

\* the length of InputState.mouse_buttons, [bool; 3]
NButtons == 3

NoIndex == -1

\* the match on button in handle_ui_event: the index the handler writes,
\* NoIndex where the arm returns
MouseIndex(button) ==
  CASE button = "Left" -> 0
    [] button = "Middle" -> 2
    [] button = "Right" -> 3
    [] OTHER -> NoIndex

NoEvent == [kind |-> "none", button |-> "none", pressed |-> FALSE,
            position |-> <<0, 0>>]

\* InputState::default(), before any event
InputDefault ==
  [cursor_pos |-> <<0, 0>>,
   mouse_buttons |-> <<FALSE, FALSE, FALSE>>,
   panicked |-> FALSE,  \* an index was out of bounds: the thread panicked
   event |-> NoEvent,   \* the event handle_ui_event was last given
   before |-> [cursor_pos |-> <<0, 0>>,  \* the InputState it was given
               mouse_buttons |-> <<FALSE, FALSE, FALSE>>]]

UiIdle == input = InputDefault

UiInit == input = InputDefault

\* the InputState part of input
InputState == [cursor_pos |-> input.cursor_pos,
               mouse_buttons |-> input.mouse_buttons]

\* WindowEvent::CursorMoved
CursorMoved(position) ==
  /\ ~input.panicked
  /\ input' = [input EXCEPT
                 !.cursor_pos = position,
                 !.event = [NoEvent EXCEPT !.kind = "CursorMoved",
                                           !.position = position],
                 !.before = InputState]
  /\ UNCHANGED <<hostVars, traceVars, kernelVars>>

\* WindowEvent::MouseInput
MouseInput(button, pressed) ==
  /\ ~input.panicked
  /\ LET i == MouseIndex(button)
         ev == [NoEvent EXCEPT !.kind = "MouseInput", !.button = button,
                               !.pressed = pressed]
     IN input' =
          IF i = NoIndex
            THEN [input EXCEPT !.event = ev, !.before = InputState]
          ELSE IF i < NButtons
            THEN [input EXCEPT !.mouse_buttons[i + 1] = pressed,
                               !.event = ev, !.before = InputState]
          ELSE [input EXCEPT !.panicked = TRUE,
                             !.event = ev, !.before = InputState]
  /\ UNCHANGED <<hostVars, traceVars, kernelVars>>

\* every other event: the arms _ => {}
OtherEvent ==
  /\ ~input.panicked
  /\ input' = [input EXCEPT !.event = [NoEvent EXCEPT !.kind = "other"],
                            !.before = InputState]
  /\ UNCHANGED <<hostVars, traceVars, kernelVars>>

UiNext ==
  \/ \E position \in CursorPositions : CursorMoved(position)
  \/ \E button \in MouseButtons, pressed \in BOOLEAN :
       MouseInput(button, pressed)
  \/ OtherEvent

Init == HostInit /\ TraceIdle /\ KernelIdle /\ UiIdle

Next == HostNext

Spec == Init /\ [][Next]_vars

TraceSpecInit == TraceInit /\ HostIdle /\ KernelIdle /\ UiIdle

TraceSpecNext == TraceNext

TraceSpec == TraceSpecInit /\ [][TraceSpecNext]_vars

RngSpecInit == RngInit /\ call = CallIdle /\ HostIdle /\ TraceIdle /\ UiIdle

RngSpecNext == RngNext

RngSpec == RngSpecInit /\ [][RngSpecNext]_vars

HitSpecInit == KernelIdle /\ HostIdle /\ TraceIdle /\ UiIdle

HitSpecNext == HitNext

HitSpec == HitSpecInit /\ [][HitSpecNext]_vars

UiSpecInit == UiInit /\ HostIdle /\ TraceIdle /\ KernelIdle

UiSpecNext == UiNext

UiSpec == UiSpecInit /\ [][UiSpecNext]_vars

(***************************************************************************)
(* Claims about the frame loop, checked under Spec.                        *)
(***************************************************************************)

\* no trace pass and no copy of it is still to be executed
AccumulationSettled ==
  \A i \in 1..Len(queue) : queue[i] \notin {"rt_pass", "copy_texture_to_texture"}

\* C2: accumulation is a running sum.  Once the trace pass and the copy of a
\* redraw have run, textures.prev holds, for every pixel, the sum of the
\* per-frame contributions of that pixel since the last reset, and the number
\* of frames summed in it is the number of redraws that recorded a trace pass.
Thm_C2_RunningSum ==
  AccumulationSettled =>
    /\ hist.prevFrames = hist.traced
    /\ \A p \in Pixels(textures.size) : textures.prev[p] = hist.total[p]

Wit_C2_RunningSum ==
  /\ AccumulationSettled
  /\ hist.prevFrames = 2
  /\ \E p \in Pixels(textures.size) : textures.prev[p] = 2

\* C3 (as claimed): whenever quad_f has drawn, the divisor it used is exactly
\* the number of frames summed in the buffer it read.
Orig_C3_DivisorIsFrameCount ==
  hist.drawn =>
    \A p \in Pixels(textures.size) : screen[p][2] = hist.shownFrames

\* C4: a Resized event resets the accumulation.  Right after it the buffer
\* the next trace pass reads is all zero, no frame is accumulated and
\* consts.samples is 1; the redraw that follows records a trace pass and
\* leaves exactly one frame in the buffer, exhausted budget or not.
Thm_C4_ResizeResets ==
  /\ hist.events[2] = "resized" =>
       /\ textures.size = consts.size
       /\ \A p \in Pixels(consts.size) : textures.prev[p] = 0
       /\ hist.prevFrames = 0
       /\ consts.samples = 1
  /\ hist.events = <<"resized", "redraw">> =>
       /\ hist.tracedNow
       /\ queue = <<>> =>
            /\ hist.prevFrames = 1
            /\ \A p \in Pixels(consts.size) : textures.prev[p] = hist.frame[p]

Wit_C4_ResizeResets ==
  /\ hist.events = <<"resized", "redraw">>
  /\ hist.wasExhausted
  /\ queue = <<>>
  /\ \E p \in Pixels(consts.size) : textures.prev[p] = 1

\* C5: within a trace pass the invocation for pixel p reads texel p of the
\* previous sum and writes pixel p of the output only: at every point of the
\* pass each shaded pixel holds its own previous sum plus its own
\* contribution and each pixel not yet shaded still holds the cleared value,
\* whatever the order in which the pixels are shaded.
Thm_C5_PixelIndependence ==
  inPass =>
    \A p \in Pixels(textures.size) :
      IF p \in pending
        THEN /\ textures.current[p] = 0
             /\ hist.read[p] = NoTexel
        ELSE /\ hist.read[p] = p
             /\ textures.current[p] = textures.prev[p] + hist.frame[p]

\* a finished pass over two rows, shaded bottom row first, on top of sums
\* that differ between the two pixels
Wit_C5_PixelIndependence ==
  /\ inPass /\ pending = {}
  /\ hist.order = <<(<<0, 1>>), (<<0, 0>>)>>
  /\ textures.prev[<<0, 0>>] # textures.prev[<<0, 1>>]
  /\ textures.current[<<0, 0>>] # textures.current[<<0, 1>>]

\* the commands of one redraw, in order, from position i on
Suffixes(cmds) == {SubSeq(cmds, i, Len(cmds)) : i \in 1..(Len(cmds) + 1)}

\* C6: frames are strictly sequential.  The queue only ever holds the rest of
\* one redraw's commands in recording order; while a trace pass runs, every
\* earlier frame is already copied into prev and prev, which the pass reads,
\* still holds exactly the sum of those frames (the pass writes current); the
\* tonemap pass runs only when the copy of this redraw's trace pass is done.
Thm_C6_FramesSequential ==
  /\ queue \in Suffixes(EncodeCommands(hist.tracedNow))
  /\ inPass => /\ Head(queue) = "rt_pass"
               /\ hist.prevFrames = hist.traced - 1
               /\ hist.curFrames <= hist.prevFrames
               /\ \A p \in Pixels(textures.size) :
                    textures.prev[p] + (IF p \in pending THEN 0
                                                         ELSE hist.frame[p])
                      = hist.total[p]
  /\ (queue # <<>> /\ Head(queue) = "copy_texture_to_texture") =>
       /\ hist.curFrames = hist.traced
       /\ hist.prevFrames = hist.traced - 1
  /\ (queue # <<>> /\ Head(queue) \in {"quad_pass", "ui_pass"}) =>
       hist.prevFrames = hist.traced
  /\ (queue = <<>> /\ hist.drawn) => hist.shownFrames = hist.traced

Wit_C6_FramesSequential ==
  /\ inPass
  /\ hist.traced = 2
  /\ hist.prevFrames = 1
  /\ \E p \in Pixels(textures.size) : p \notin pending

\* C21: between two resets the trace pass runs at most SAMPLES times and the
\* count the UI shows never exceeds SAMPLES.  Once consts.samples exceeds
\* SAMPLES, a redraw leaves consts (the frame seed and the sample counter)
\* as it was and records no trace pass, and none of the commands it submits
\* changes the accumulation buffers.
Thm_C21_BudgetStops ==
  /\ [](hist.traced <= SAMPLES /\ ui_text <= SAMPLES)
  /\ [][(consts.samples > SAMPLES /\ queue = <<>> /\ queue' # <<>>) =>
           (/\ consts' = consts
            /\ textures' = textures
            /\ hist'.traced = hist.traced
            /\ ~hist'.tracedNow)]_vars
  /\ [][(consts.samples > SAMPLES /\ ~hist.tracedNow /\ queue # <<>>) =>
           (/\ consts' = consts
            /\ textures' = textures)]_vars

Wit_C21_BudgetStops ==
  /\ consts.samples = SAMPLES + 1
  /\ hist.events = <<"redraw", "redraw">>
  /\ ~hist.tracedNow
  /\ queue = <<>>
  /\ hist.traced = SAMPLES
  /\ ui_text = SAMPLES
  /\ \E p \in Pixels(textures.size) : textures.prev[p] = 2

\* C22: under every interleaving of Resized and RedrawRequested events
\* consts.samples stays within 1 .. SAMPLES + 1; whenever the tonemap pass
\* is about to run, and whenever it has run, the divisor quad_f reads from
\* the uniform buffer is in that range too, so never zero, and
\* consts.samples - 1, the count the UI shows, is never negative.
Thm_C22_SamplesInRange ==
  /\ consts.samples \in 1..(SAMPLES + 1)
  /\ (queue # <<>> /\ Head(queue) = "quad_pass") =>
       uniform.samples \in 1..(SAMPLES + 1)
  /\ hist.drawn => \A p \in Pixels(textures.size) : screen[p][2] >= 1
  /\ consts.samples - 1 >= 0
  /\ ui_text >= 0

Wit_C22_SamplesInRange ==
  /\ hist.wasExhausted
  /\ hist.events = <<"redraw", "resized">>
  /\ consts.samples = 1
  /\ hist.drawn = FALSE
  /\ uniform.samples = SAMPLES + 1
  /\ ui_text = SAMPLES


(***************************************************************************)
(* Claims about one invocation of main_f, checked under TraceSpec.         *)
(***************************************************************************)

Min(S) == CHOOSE x \in S : \A y \in S : x <= y

Last(seq) == seq[Len(seq)]

Front(seq) == SubSeq(seq, 1, Len(seq) - 1)

RECURSIVE AlbedoProduct(_)
AlbedoProduct(mats) ==
  IF mats = <<>> THEN 1 ELSE Color(Head(mats)) * AlbedoProduct(Tail(mats))

Scatters(mat) == mat >= 0 /\ Kind(mat) # "Emissive"

\* how a finished invocation left the loop, read off the bounces it made
EndsInMiss == path.hits # <<>> /\ Last(path.hits) = -1

EndsInEmissive ==
  path.hits # <<>> /\ Last(path.hits) >= 0 /\ Kind(Last(path.hits)) = "Emissive"

EndsExhausted ==
  /\ Len(path.hits) = MAX_BOUNCES
  /\ \A i \in 1..Len(path.hits) : Scatters(path.hits[i])

\* the steps one iteration of the loop can take
StepsPerBounce == NSpheres + 1 + NTris + 1

\* C1: every invocation terminates after at most MAX_BOUNCES iterations of
\* the bounce loop: the iteration count and the step count are bounded, a
\* step is possible in every state but the final one, and the final state is
\* reached in exactly one of three ways: a miss, an Emissive hit, or the
\* budget exhausted.
Thm_C1_BoundedTrace ==
  /\ bounce \in 0..MAX_BOUNCES
  /\ Len(path.hits) <= bounce
  /\ path.steps <= 1 + MAX_BOUNCES * StepsPerBounce
  /\ pc # "done" => ENABLED TraceNext
  /\ pc = "done" =>
       /\ path.ending \in {"miss", "emissive", "exhausted"}
       /\ path.ending = "miss" <=> EndsInMiss
       /\ path.ending = "emissive" <=> EndsInEmissive
       /\ path.ending = "exhausted" <=> EndsExhausted
       /\ Len(path.hits) = bounce

Wit_C1_BoundedTrace ==
  /\ pc = "done"
  /\ EndsInMiss
  /\ bounce = MAX_BOUNCES
  /\ path.steps = 1 + MAX_BOUNCES * StepsPerBounce

Thm_C8_MissTerminates ==
  /\ (pc = "shade" /\ path.cands = {}) => closest.distance = FMAX
  /\ \A i \in 1..Len(path.hits) :
       path.hits[i] = -1 => i = Len(path.hits) /\ pc = "done"
  /\ (pc = "done" /\ EndsInMiss) =>
       /\ path.cands = {}
       /\ attenuation = path.start * AlbedoProduct(Front(path.hits))
       /\ out_color = path.texel + path.sky * attenuation
       /\ path.adds = 1

Wit_C8_MissTerminates ==
  /\ pc = "done" /\ EndsInMiss
  /\ Len(path.hits) = 2
  /\ path.texel = 1 /\ path.sky = 1 /\ attenuation = 2
  /\ out_color = 3

\* C9: when the closest hit of a bounce has an Emissive material, the
\* invocation adds (albedo) x (attenuation accumulated before the hit) to its
\* output exactly once, builds no new ray and ends there.
Thm_C9_EmissiveTerminates ==
  /\ \A i \in 1..Len(path.hits) :
       (path.hits[i] >= 0 /\ Kind(path.hits[i]) = "Emissive")
         => i = Len(path.hits) /\ pc = "done"
  /\ (pc = "done" /\ EndsInEmissive) =>
       /\ closest.mat = Last(path.hits)
       /\ attenuation = path.start * AlbedoProduct(Front(path.hits))
       /\ out_color = path.texel + Color(Last(path.hits)) * attenuation
       /\ path.adds = 1
       /\ path.rays = Len(path.hits)

Wit_C9_EmissiveTerminates ==
  /\ pc = "done" /\ EndsInEmissive
  /\ Len(path.hits) = 2
  /\ path.texel = 1 /\ attenuation = 2
  /\ out_color = 11

\* C10: if all MAX_BOUNCES iterations scatter, the path contributes nothing:
\* the output is the previously accumulated value of the pixel, unchanged.
Thm_C10_ExhaustedAddsNothing ==
  (pc = "done" /\ EndsExhausted) =>
    /\ out_color = path.texel
    /\ path.adds = 0

Wit_C10_ExhaustedAddsNothing ==
  /\ pc = "done" /\ EndsExhausted
  /\ path.texel = 1
  /\ attenuation > 1
  /\ out_color = 1


\* C19: at every step the attenuation is its value at path start times the
\* product of the albedos of the surfaces the path has scattered from so far,
\* each taken once; the Emissive hit or the miss that ends a path is not
\* among them.
Thm_C19_AttenuationProduct ==
  /\ attenuation = path.start * AlbedoProduct(SelectSeq(path.hits, Scatters))
  /\ Len(SelectSeq(path.hits, Scatters)) = path.rays - (IF pc = "start" THEN 0 ELSE 1)

\* a Dielectric and a Lambertian bounce, then the light
Wit_C19_AttenuationProduct ==
  /\ pc = "done"
  /\ path.hits = <<5, 0, 7>>
  /\ path.start = 2
  /\ attenuation = 4

IsTri(obj) == obj # "none" /\ obj[1] = "tri"

\* C20: the bounding-box test only gates the triangle tests.  The triangles
\* of the mesh are tested in a bounce exactly when its AABB test passed (all
\* of them then, none otherwise); the AABB test itself leaves the running
\* closest hit as it is; a triangle test changes it only to the non-empty Hit
\* of that triangle, beyond tMin and nearer than the closest so far.
Thm_C20_AabbGatesTriangles ==
  /\ [](/\ pc = "tris" => path.meshes = 1
        /\ path.meshes = 0 => path.tested <= NSpheres /\ ~IsTri(closest.obj)
        /\ path.meshes = 2 =>
             /\ pc \in {"shade", "done"}
             /\ path.tested = NSpheres
             /\ ~IsTri(closest.obj)
        /\ (path.meshes = 1 /\ pc \in {"shade", "done"}) =>
             path.tested = NSpheres + NTris)
  /\ [][/\ pc = "meshes" => closest' = closest
        /\ (pc = "tris" /\ closest' # closest) =>
             /\ closest'.obj = <<"tri", idx>>
             /\ closest'.mat = MeshMat
             /\ closest'.distance > TMin
             /\ closest'.distance < closest.distance]_vars

\* the AABB test failed: no triangle was tested and the closest hit is a sphere
Wit_C20_AabbGatesTriangles ==
  /\ pc = "shade"
  /\ path.meshes = 2
  /\ path.tested = NSpheres
  /\ closest.distance # FMAX
  /\ closest.obj[1] = "sphere"

(***************************************************************************)
(* Claims about the seeding and the draws of Rng, checked under RngSpec.   *)
(***************************************************************************)

\* C11 (as claimed): for one frame seed and one viewport size, the generators
\* of two distinct pixels never start from the same state.
Orig_C11_DistinctSeeds ==
  rngs.gen["a"].coord # rngs.gen["b"].coord
    => rngs.gen["a"].seed # rngs.gen["b"].seed

\* the first i calls made on the two generators were calls of the same functions
SameCalls(x, y, i) == \A j \in 1..i : x.out[j].fn = y.out[j].fn

UnitRange(x) == 0 <= x /\ x < GenOne

\* C18 (as claimed): every gen_in_sphere takes three draws, its u, v, w are
\* unit-range values, the argument of acos lies in [-1, 1], the radial factor
\* cbrt(w) lies in [0, 1] and the point returned lies inside the unit sphere.
Orig_C18_SphereSampleInRange ==
  \A g \in Gens :
    \A i \in 1..Len(rngs.gen[g].out) :
      rngs.gen[g].out[i].fn = "gen_in_sphere" =>
        LET p == rngs.gen[g].out[i].v
        IN /\ p.draws = 3
           /\ UnitRange(p.u) /\ UnitRange(p.v) /\ UnitRange(p.w)
           /\ AcosDefined(p.acosArg)
           /\ ~p.nan


(***************************************************************************)
(* Claims about the intersectors and the Dielectric arm, checked under     *)
(* HitSpec.                                                                *)
(***************************************************************************)

IsHitCall == call.fn \in {"Sphere::hit", "Tri::hit"}

\* C13 (as claimed): every non-empty Hit returned by Sphere::hit or Tri::hit,
\* in both shader variants, has a normal that faces the incoming ray,
\* dot(normal, ray.dir) <= 0, and front_face is true exactly when the
\* geometric normal already opposed the ray.
Orig_C13_NormalFacesRay ==
  (IsHitCall /\ call.hit # HitEmpty) =>
    /\ call.hit.ndot <= 0
    /\ call.hit.front_face <=> call.dn < 0

\* the discriminant of the call's quadratic
Disc == call.b * call.b - call.c

\* C14 (as claimed): Sphere::hit returns the empty Hit when the discriminant
\* is zero, and Tri::hit returns the empty Hit when the determinant is zero.
Orig_C14_DegenerateIsEmpty ==
  /\ (call.fn = "Sphere::hit" /\ Disc = 0) => call.hit = HitEmpty
  /\ (call.fn = "Tri::hit" /\ call.det = 0) => call.hit = HitEmpty

\* C14 (amended): Sphere::hit returns the empty Hit when the discriminant is
\* negative; when it is zero it returns the hit at the double root -b / a if
\* that root passes the range test and the empty Hit otherwise.  Tri::hit
\* returns the empty Hit when the determinant is zero.  Every call returns a
\* Hit: the empty one or one at a distance the range test accepted.
Thm_C14_DegenerateDefined ==
  /\ call.fn = "Sphere::hit" =>
       /\ Disc < 0 => call.hit = HitEmpty
       /\ Disc = 0 =>
            IF TMin <= -call.b /\ -call.b <= call.max
              THEN call.hit # HitEmpty /\ call.hit.distance = -call.b
              ELSE call.hit = HitEmpty
  /\ (call.fn = "Tri::hit" /\ call.det = 0) => call.hit = HitEmpty
  /\ IsHitCall =>
       \/ call.hit = HitEmpty
       \/ call.hit.distance \in TMin..call.max

\* a tangent ray that touches the sphere inside the range
Wit_C14_DegenerateDefined ==
  /\ call.fn = "Sphere::hit"
  /\ Disc = 0
  /\ call.hit.distance = -call.b
  /\ call.hit.distance > TMin
  /\ call.hit.distance < call.max

\* C15 (as claimed): Sphere::hit returns the smaller root when it lies in the
\* open interval (tMin, tMax), otherwise the larger root when that lies in
\* (tMin, tMax), otherwise the empty Hit.
Orig_C15_OpenInterval ==
  call.fn = "Sphere::hit" =>
    IF call.roots # <<>> /\ TMin < call.roots[1] /\ call.roots[1] < call.max
      THEN call.hit # HitEmpty /\ call.hit.distance = call.roots[1]
    ELSE IF call.roots # <<>> /\ TMin < call.roots[2] /\ call.roots[2] < call.max
      THEN call.hit # HitEmpty /\ call.hit.distance = call.roots[2]
    ELSE call.hit = HitEmpty

\* C16: a ray that starts exactly on the sphere (c = 0) and points outward
\* (b > 0) misses that sphere in the trace loop: its roots are -2b and 0,
\* both below tMin, Sphere::hit returns the empty Hit and the loop leaves
\* the running closest hit as it was.
Thm_C16_SurfaceOriginMisses ==
  (call.fn = "Sphere::hit" /\ call.c = 0 /\ call.b > 0) =>
    /\ call.roots = <<-2 * call.b, 0>>
    /\ call.roots[2] < TMin
    /\ call.hit = HitEmpty
    /\ call.closest = [HitEmpty EXCEPT !.distance = call.max]

Wit_C16_SurfaceOriginMisses ==
  /\ call.fn = "Sphere::hit"
  /\ call.c = 0 /\ call.b = 2
  /\ call.max = FMAX
  /\ call.closest.distance = FMAX

\* C17: in the Dielectric arm ir is 1 / ior for a front-face hit and ior
\* otherwise; the new direction is the reflection whenever ir x sin(theta) > 1,
\* whatever the draw; otherwise it is the reflection exactly when the draw is
\* less than schlick(cos(theta), ir), and the refraction if not.  The arm takes
\* one draw.
Thm_C17_DielectricBranch ==
  call.fn = "Dielectric" =>
    LET r == call.res
        tir == RLt(ROne, RMul(r.ir, r.sin_theta))
    IN /\ r.ir = IF call.front_face THEN RDiv(ROne, call.ior) ELSE call.ior
       /\ r.cos_theta = (IF RLt(ROne, call.ndot) THEN ROne ELSE call.ndot)
       /\ RAdd(RMul(r.sin_theta, r.sin_theta),
               RMul(r.cos_theta, r.cos_theta)) = ROne
       /\ r.draws = 1
       /\ tir => r.dir = "reflect"
       /\ ~tir => IF RLt(call.draw, schlick(r.cos_theta, r.ir))
                    THEN r.dir = "reflect"
                    ELSE r.dir = "refract"

\* total internal reflection with a draw that would have chosen refraction
Wit_C17_DielectricBranch ==
  /\ call.fn = "Dielectric"
  /\ ~call.front_face
  /\ call.res.cannot_refract
  /\ ~call.res.will_reflect
  /\ call.res.dir = "reflect"


\* C24 (as claimed): for every wavelength the path start can sample,
\* 380 <= wavelength < 750, the initial attenuation has no negative channel
\* and at least one channel that is not zero.
Orig_C24_TintNotZero ==
  (/\ call.fn = "path start"
   /\ InRange(call.wavelength, 380, 750)
   /\ RLt(call.wavelength, <<750, 1>>)) =>
    /\ \A i \in 1..3 : ~RLt(call.attenuation[i], RZero)
    /\ \E i \in 1..3 : call.attenuation[i] # RZero


(***************************************************************************)
(* Claims about handle_ui_event, checked under UiSpec.                     *)
(***************************************************************************)

\* C23 (as claimed): for every mouse-button event, whatever the button and
\* whether pressed or released, handle_ui_event does not index
\* mouse_buttons out of bounds, leaves cursor_pos as it was, and either
\* leaves mouse_buttons as it was or writes one of its three entries.
Orig_C23_MouseButtonsInRange ==
  input.event.kind = "MouseInput" =>
    /\ ~input.panicked
    /\ input.cursor_pos = input.before.cursor_pos
    /\ \/ input.mouse_buttons = input.before.mouse_buttons
       \/ \E i \in 1..NButtons :
            input.mouse_buttons =
              [input.before.mouse_buttons EXCEPT ![i] = input.event.pressed]

=============================================================================
